---- MODULE Spec2Model ----
(***************************************************************************)
(* Model of src/main.py: one run of the mailbox triage pipeline            *)
(* (load credentials, open the IMAP session, delete, notify, post to       *)
(* Telegram, download attachments, logout) against a small mailbox.        *)
(*                                                                         *)
(* A message identifier is the IMAP sequence number, i.e. the position of  *)
(* the message in the mailbox; uid is a history field that names the       *)
(* message across an expunge.  Text (headers, filenames) is a sequence of  *)
(* one-character strings.                                                  *)
(***************************************************************************)
EXTENDS Integers, Sequences, FiniteSets, TLC

\* ---------------------------------------------------------------- bounds
MaxMsgs == 2
MaxList == 2
MaxCalls == 2

\* ------------------------------------------------------ program constants
FromWidth == 30
SubjectWidth == 50

\* ------------------------------------------------------------ text helpers
DigitChars == <<"0", "1", "2", "3", "4", "5", "6", "7", "8", "9">>

RECURSIVE IdDecode(_)
\* msg_id.decode(): the decimal text of a sequence number
IdDecode(n) ==
    IF n < 10 THEN <<DigitChars[n + 1]>>
    ELSE IdDecode(n \div 10) \o <<DigitChars[(n % 10) + 1]>>

\* str.ljust(w): pad on the right with blanks up to width w, never truncate
LJust(s, w) ==
    IF Len(s) >= w THEN s ELSE s \o [i \in 1..(w - Len(s)) |-> " "]

\* IMAP substring match of a FROM criterion against the From header
Contains(needle, hay) ==
    \E i \in 1..(Len(hay) - Len(needle) + 1) :
        SubSeq(hay, i, i + Len(needle) - 1) = needle

SeqsUpTo(S, n) == UNION {[1..k -> S] : k \in 0..n}

\* ------------------------------------------------------------ input domains
Addresses == {<<"a">>, <<"b">>}
\* From headers: one names address a only, one names both a and b
FromHeaders == {<<"a">>, <<"a", "b">>}
SenderLists == SeqsUpTo(Addresses, MaxList)
\* a sender-list file: unreadable/malformed, or {"emails": [...]}
ListFiles == {[ok |-> FALSE, emails |-> <<>>]} \cup
             {[ok |-> TRUE, emails |-> l] : l \in SenderLists}

PlainSubject == [charset |-> "none", text |-> <<"H">>]
Utf8Subject == [charset |-> "utf-8", text |-> <<"H">>]
BadSubject == [charset |-> "x-unknown", text |-> <<"H">>]
Codecs == {"utf-8", "ascii"}

BodyPart == [maintype |-> "text", disposition |-> FALSE, filename |-> <<>>]
Container == [maintype |-> "multipart", disposition |-> FALSE, filename |-> <<>>]
NamedPart == [maintype |-> "application", disposition |-> TRUE,
              filename |-> <<<<"r">>>>]
ChunkedPart == [maintype |-> "application", disposition |-> TRUE,
                filename |-> <<<<"r">>, <<"2">>>>]
NamelessPart == [maintype |-> "application", disposition |-> TRUE,
                 filename |-> <<>>]

\* the mailbox made of the given message contents, numbered in order
MkMailbox(bodies) ==
    [i \in 1..Len(bodies) |->
        [uid |-> i, From |-> bodies[i].From, seen |-> bodies[i].seen,
         deleted |-> FALSE, Subject |-> bodies[i].Subject,
         parts |-> bodies[i].parts]]

Mailboxes(Subjects, Walks) ==
    {MkMailbox(b) :
        b \in SeqsUpTo([From : FromHeaders, seen : BOOLEAN,
                        Subject : Subjects, parts : Walks], MaxMsgs)}


\* ------------------------------------------------------- mailbox operations
RECURSIVE SearchFrom(_, _, _, _)
SearchFrom(mb, crit, unseenOnly, i) ==
    IF i > Len(mb) THEN <<>>
    ELSE IF Contains(crit, mb[i].From) /\ (unseenOnly => ~mb[i].seen)
         THEN <<i>> \o SearchFrom(mb, crit, unseenOnly, i + 1)
         ELSE SearchFrom(mb, crit, unseenOnly, i + 1)

\* variant: a search that ignores its criteria and returns every message
SearchAny(mb, crit, unseenOnly) == [i \in 1..Len(mb) |-> i]

\* mail.search(None, 'FROM "crit"') or '(FROM "crit" UNSEEN)': the sequence
\* numbers of the matching messages, ascending; \Deleted messages are still
\* returned until they are expunged
Search(mb, crit, unseenOnly) == SearchFrom(mb, crit, unseenOnly, 1)

\* mail.store(msg_id, "+FLAGS", flag)
Store(mb, id, flag) ==
    IF flag = "Deleted" THEN [mb EXCEPT ![id].deleted = TRUE]
    ELSE [mb EXCEPT ![id].seen = TRUE]

\* mail.fetch(msg_id, "(RFC822)"): a server that follows RFC 3501 sets \Seen
\* on a non-PEEK fetch of the body; setsSeen is whether this one does
Fetch(mb, id, setsSeen) ==
    IF setsSeen THEN [mb EXCEPT ![id].seen = TRUE] ELSE mb

\* variant: an expunge that removes nothing
ExpungeNothing(mb) == mb

\* mail.expunge(): remove every message flagged \Deleted, renumbering the rest
Expunge(mb) == SelectSeq(mb, LAMBDA m : ~m.deleted)

Uids(mb) == {mb[i].uid : i \in 1..Len(mb)}
DeletedUids(mb) == {mb[i].uid : i \in {j \in 1..Len(mb) : mb[j].deleted}}
SeenUids(mb) == {mb[i].uid : i \in {j \in 1..Len(mb) : mb[j].seen}}
MsgByUid(mb, u) == mb[CHOOSE i \in 1..Len(mb) : mb[i].uid = u]

\* decode_header(msg["Subject"])[0], then bytes.decode(encoding or "utf-8")
DecodeSubject(h) ==
    IF h.charset = "none" THEN [ok |-> TRUE, text |-> h.text]
    ELSE IF h.charset \in Codecs THEN [ok |-> TRUE, text |-> h.text]
    ELSE [ok |-> FALSE, text |-> <<>>]

\* -------------------------------------------------------------------- state
VARIABLES
    pc,             \* position of main()
    error,          \* the exception that ended the run, or NoError
    session,        \* "none", "open" or "closed"
    logoutCalls,    \* number of mail.logout() calls
    mailbox,        \* the remote inbox
    expungeCalls,   \* number of mail.expunge() calls
    fetchSetsSeen,  \* whether the server sets \Seen on fetch (RFC822)
    senders,        \* the sender list the running stage loaded
    idx,            \* position of the stage's sender loop
    message_ids,    \* ids of the current sender still to be processed
    count,          \* get_emails_to_delete's count
    summary,        \* the table the running stage builds / returned
    searched,       \* history: the result of each search of the deletion stage
    flaggedDeleted, \* history: uids this run flagged \Deleted
    expunged,       \* history: uids this run expunged
    markedSeen,     \* history: uids the notification stage stored \Seen
    seenAtStart,    \* history: uids that were \Seen when the stage started
    reported,       \* history: uids of the rows of all notification summaries
    calls,          \* history: number of notification stage calls
    sent,           \* the text handed to send_to_telegram, or NotSent
    postResult      \* outcome of requests.post / raise_for_status, kept
                    \* until the next stage starts

sess == <<session, logoutCalls>>
locals == <<senders, idx, message_ids, count, summary, searched>>
remote == <<mailbox, expungeCalls, flaggedDeleted, expunged>>
notifyHist == <<markedSeen, seenAtStart, reported, calls>>
telegram == <<sent, postResult>>
vars == <<pc, error, sess, locals, remote, notifyHist, telegram, fetchSetsSeen>>

NoError == [stage |-> "none", kind |-> "none"]
NotSent == [header |-> "not sent", rows |-> <<>>]

\* an exception leaves the stage and main(): the process ends, nothing else
\* runs, and the locals of the unwound frames are gone
Abort(stage, kind) ==
    /\ pc' = "aborted"
    /\ error' = [stage |-> stage, kind |-> kind]
    /\ senders' = <<>>
    /\ idx' = 0
    /\ message_ids' = <<>>
    /\ count' = 0
    /\ summary' = <<>>
    /\ searched' = <<>>

\* ---------------------------------------------------- main: before the stages
LoadCredentials ==
    /\ pc = "load_credentials"
    /\ \E ok \in BOOLEAN :
          IF ok THEN pc' = "connect" /\ UNCHANGED <<error, locals>>
          ELSE Abort("credentials", "ConfigError")
    /\ UNCHANGED <<sess, remote, notifyHist, telegram, fetchSetsSeen>>

ConnectToGmailImap ==
    /\ pc = "connect"
    /\ \E ok \in BOOLEAN :
          IF ok
          THEN pc' = "del_open" /\ session' = "open" /\ UNCHANGED <<error, locals>>
          ELSE Abort("connect", "ConnectionError") /\ UNCHANGED session
    /\ UNCHANGED <<logoutCalls, remote, notifyHist, telegram, fetchSetsSeen>>

\* ----------------------------------------------------- get_emails_to_delete
DeleteOpen ==
    /\ pc = "del_open"
    /\ \E f \in ListFiles :
          IF f.ok
          THEN /\ senders' = f.emails
               /\ idx' = 1
               /\ summary' = <<>>
               /\ searched' = <<>>
               /\ pc' = "del_search"
               /\ UNCHANGED <<error, message_ids, count>>
          ELSE Abort("delete", "ConfigError")
    /\ UNCHANGED <<sess, remote, notifyHist, telegram, fetchSetsSeen>>

DeleteSearch ==
    /\ pc = "del_search"
    /\ idx <= Len(senders)
    /\ message_ids' = Search(mailbox, senders[idx], FALSE)
    /\ count' = Len(message_ids')
    /\ searched' = Append(searched, message_ids')
    /\ pc' = "del_store"
    /\ UNCHANGED <<error, sess, senders, idx, summary, remote, notifyHist,
                   telegram, fetchSetsSeen>>

DeleteStore ==
    /\ pc = "del_store"
    /\ message_ids # <<>>
    /\ mailbox' = Store(mailbox, Head(message_ids), "Deleted")
    /\ flaggedDeleted' = flaggedDeleted \cup {mailbox[Head(message_ids)].uid}
    /\ message_ids' = Tail(message_ids)
    /\ UNCHANGED <<pc, error, sess, senders, idx, count, summary, searched,
                   expungeCalls, expunged, notifyHist, telegram, fetchSetsSeen>>

\* variant: a summary that leaves out the senders without mail
DeleteAppendNonEmpty ==
    /\ pc = "del_store"
    /\ message_ids = <<>>
    /\ summary' = IF count = 0 THEN summary
                  ELSE Append(summary, [Email |-> senders[idx], Count |-> count])
    /\ idx' = idx + 1
    /\ pc' = "del_search"
    /\ UNCHANGED <<error, sess, senders, message_ids, count, searched, remote,
                   notifyHist, telegram, fetchSetsSeen>>

DeleteAppend ==
    /\ pc = "del_store"
    /\ message_ids = <<>>
    /\ summary' = Append(summary, [Email |-> senders[idx], Count |-> count])
    /\ idx' = idx + 1
    /\ pc' = "del_search"
    /\ UNCHANGED <<error, sess, senders, message_ids, count, searched, remote,
                   notifyHist, telegram, fetchSetsSeen>>

DeleteExpunge ==
    /\ pc = "del_search"
    /\ idx > Len(senders)
    /\ expunged' = expunged \cup (Uids(mailbox) \ Uids(Expunge(mailbox)))
    /\ mailbox' = Expunge(mailbox)
    /\ expungeCalls' = expungeCalls + 1
    /\ pc' = "del_returned"
    /\ UNCHANGED <<error, sess, locals, flaggedDeleted, notifyHist, telegram,
                   fetchSetsSeen>>

\* any IMAP call of the stage may raise (imaplib.IMAP4.error, socket error)
DeleteRaise ==
    /\ pc \in {"del_search", "del_store"}
    /\ Abort("delete", "ImapError")
    /\ UNCHANGED <<sess, remote, notifyHist, telegram, fetchSetsSeen>>

\* main: print the deletion summary and drop its rows
PrintDeleted ==
    /\ pc = "del_returned"
    /\ pc' = "ntf_open"
    /\ summary' = <<>>
    /\ senders' = <<>>
    /\ searched' = <<>>
    /\ idx' = 0
    /\ count' = 0
    /\ UNCHANGED <<error, sess, message_ids, remote, notifyHist, telegram,
                   fetchSetsSeen>>


\* ----------------------------------------------------- get_emails_to_notify
NotifyOpen ==
    /\ pc = "ntf_open"
    /\ \E f \in ListFiles :
          IF f.ok
          THEN /\ senders' = f.emails
               /\ idx' = 1
               /\ summary' = <<>>
               /\ pc' = "ntf_search"
               /\ UNCHANGED <<error, message_ids, count, searched>>
          ELSE Abort("notify", "ConfigError")
    /\ seenAtStart' = SeenUids(mailbox)
    /\ UNCHANGED <<sess, remote, markedSeen, reported, calls, telegram,
                   fetchSetsSeen>>

NotifySearch ==
    /\ pc = "ntf_search"
    /\ idx <= Len(senders)
    /\ message_ids' = Search(mailbox, senders[idx], TRUE)
    /\ pc' = "ntf_msg"
    /\ UNCHANGED <<error, sess, senders, idx, count, summary, searched, remote,
                   notifyHist, telegram, fetchSetsSeen>>

\* fetch answers NO: msg_data[0][1] is not a message and parsing it raises
NotifyFetchFail ==
    /\ pc = "ntf_msg"
    /\ message_ids # <<>>
    /\ Abort("notify", "FetchError")
    /\ UNCHANGED <<sess, remote, notifyHist, telegram, fetchSetsSeen>>

\* the Subject header does not decode: the exception leaves the function
NotifyDecodeFail ==
    /\ pc = "ntf_msg"
    /\ message_ids # <<>>
    /\ ~DecodeSubject(mailbox[Head(message_ids)].Subject).ok
    /\ mailbox' = Fetch(mailbox, Head(message_ids), fetchSetsSeen)
    /\ Abort("notify", "DecodeError")
    /\ UNCHANGED <<sess, expungeCalls, flaggedDeleted, expunged,
                   notifyHist, telegram, fetchSetsSeen>>

\* variant: a message is reported without the explicit store of \Seen
NotifyMsgNoStore ==
    /\ pc = "ntf_msg"
    /\ message_ids # <<>>
    /\ LET id == Head(message_ids)
           msg == mailbox[id]
           subject == DecodeSubject(msg.Subject)
       IN  /\ subject.ok
           /\ mailbox' = Fetch(mailbox, id, fetchSetsSeen)
           /\ summary' = Append(summary, [uid |-> msg.uid, From |-> msg.From,
                                          Subject |-> subject.text])
           /\ UNCHANGED markedSeen
           /\ reported' = Append(reported, msg.uid)
    /\ message_ids' = Tail(message_ids)
    /\ UNCHANGED <<pc, error, sess, senders, idx, count, searched, expungeCalls,
                   flaggedDeleted, expunged, seenAtStart, calls, telegram,
                   fetchSetsSeen>>

\* one message: fetch, decode the subject, store \Seen, append the row
NotifyMsg ==
    /\ pc = "ntf_msg"
    /\ message_ids # <<>>
    /\ LET id == Head(message_ids)
           msg == mailbox[id]
           subject == DecodeSubject(msg.Subject)
       IN  /\ subject.ok
           /\ mailbox' = Store(Fetch(mailbox, id, fetchSetsSeen), id, "Seen")
           /\ summary' = Append(summary, [uid |-> msg.uid, From |-> msg.From,
                                          Subject |-> subject.text])
           /\ markedSeen' = markedSeen \cup {msg.uid}
           /\ reported' = Append(reported, msg.uid)
    /\ message_ids' = Tail(message_ids)
    /\ UNCHANGED <<pc, error, sess, senders, idx, count, searched, expungeCalls,
                   flaggedDeleted, expunged, seenAtStart, calls, telegram,
                   fetchSetsSeen>>

NotifyNextSender ==
    /\ pc = "ntf_msg"
    /\ message_ids = <<>>
    /\ idx' = idx + 1
    /\ pc' = "ntf_search"
    /\ UNCHANGED <<error, sess, senders, message_ids, count, summary, searched,
                   remote, notifyHist, telegram, fetchSetsSeen>>

\* pad the columns and return the summary
NotifyReturn ==
    /\ pc = "ntf_search"
    /\ idx > Len(senders)
    /\ summary' = [i \in 1..Len(summary) |->
                      [uid |-> summary[i].uid,
                       From |-> LJust(summary[i].From, FromWidth),
                       Subject |-> LJust(summary[i].Subject, SubjectWidth)]]
    /\ pc' = "ntf_returned"
    /\ UNCHANGED <<error, sess, senders, idx, message_ids, count, searched,
                   remote, notifyHist, telegram, fetchSetsSeen>>

NotifyRaise ==
    /\ pc \in {"ntf_search", "ntf_msg"}
    /\ Abort("notify", "ImapError")
    /\ UNCHANGED <<sess, remote, notifyHist, telegram, fetchSetsSeen>>

\* the stage is called again on the mailbox as the last call left it
NotifyAgain ==
    /\ pc \in {"ntf_returned", "aborted"}
    /\ calls < MaxCalls
    /\ calls' = calls + 1
    /\ pc' = "ntf_open"
    /\ error' = NoError
    /\ senders' = <<>>
    /\ idx' = 0
    /\ message_ids' = <<>>
    /\ summary' = <<>>
    /\ UNCHANGED <<sess, count, searched, remote, markedSeen, seenAtStart,
                   reported, telegram, fetchSetsSeen>>

\* ------------------------------------------------- main: send_to_telegram
Message(table) ==
    IF table = <<>>
    THEN [header |-> "No new emails matching the criteria.", rows |-> <<>>]
    ELSE [header |-> "New email(s):", rows |-> table]

PostResults == {"ok", "network_failure", "http_error"}

\* variant: a failed post is raised to main instead of being swallowed
SendToTelegramRaising ==
    /\ pc = "ntf_returned"
    /\ sent' = Message(summary)
    /\ \E r \in PostResults :
          /\ postResult' = r
          /\ IF r = "ok" THEN pc' = "att_open" /\ UNCHANGED <<error, locals>>
             ELSE Abort("notifier", "NotifyError")
    /\ UNCHANGED <<sess, remote, notifyHist, fetchSetsSeen>>

\* build the message, post it; a RequestException is logged and swallowed
SendToTelegram ==
    /\ pc = "ntf_returned"
    /\ sent' = Message(summary)
    /\ \E r \in PostResults : postResult' = r
    /\ pc' = "att_open"
    /\ UNCHANGED <<error, sess, locals, remote, notifyHist, fetchSetsSeen>>


\* ---------------------------------------------------------- get_attachments
AttachmentPrefix == <<"a", "t", "t", "a", "c", "h", "m", "e", "n", "t", "_">>

\* decode_header(filename)[0][0]: the first chunk of the header only
DecodeFilename(chunks) == chunks[1]

\* f"{msg_id.decode()}_{filename}"
UniqueFilename(id, filename) == IdDecode(id) \o <<"_">> \o filename

\* a part that is saved: a leaf with a Content-Disposition or a filename
IsAttachment(part) ==
    /\ part.maintype # "multipart"
    /\ (part.disposition \/ part.filename # <<>>)

AttachmentPositions(msg) ==
    {k \in 1..Len(msg.parts) : IsAttachment(msg.parts[k])}

RECURSIVE SavedRows(_, _, _, _, _)
\* the rows appended while walking the parts of message id from part k on;
\* failed holds the positions of the parts whose write raises
SavedRows(sender, id, msg, failed, k) ==
    IF k > Len(msg.parts) THEN <<>>
    ELSE LET part == msg.parts[k]
             filename == IF part.filename # <<>>
                         THEN DecodeFilename(part.filename)
                         ELSE AttachmentPrefix \o IdDecode(id)
             row == [From |-> sender,
                     Filename |-> UniqueFilename(id, filename),
                     uid |-> msg.uid, part |-> k]
         IN  (IF IsAttachment(part) /\ k \notin failed THEN <<row>> ELSE <<>>)
             \o SavedRows(sender, id, msg, failed, k + 1)

AttachOpen ==
    /\ pc = "att_open"
    /\ \E f \in ListFiles, dirOk \in BOOLEAN :
          IF f.ok /\ dirOk
          THEN /\ senders' = f.emails
               /\ idx' = 1
               /\ summary' = <<>>
               /\ pc' = "att_search"
               /\ UNCHANGED <<error, message_ids, count, searched>>
          ELSE Abort("attach", IF f.ok THEN "OSError" ELSE "ConfigError")
    /\ postResult' = "none"
    /\ UNCHANGED <<sess, remote, notifyHist, sent, fetchSetsSeen>>

\* the search answers NO or finds nothing: warn, next sender
AttachSearchNone ==
    /\ pc = "att_search"
    /\ idx <= Len(senders)
    /\ \E status \in {"OK", "NO"} :
          status # "OK" \/ Search(mailbox, senders[idx], FALSE) = <<>>
    /\ idx' = idx + 1
    /\ UNCHANGED <<pc, error, sess, senders, message_ids, count, summary,
                   searched, remote, notifyHist, telegram, fetchSetsSeen>>

AttachSearch ==
    /\ pc = "att_search"
    /\ idx <= Len(senders)
    /\ Search(mailbox, senders[idx], FALSE) # <<>>
    /\ message_ids' = Search(mailbox, senders[idx], FALSE)
    /\ pc' = "att_msg"
    /\ UNCHANGED <<error, sess, senders, idx, count, summary, searched, remote,
                   notifyHist, telegram, fetchSetsSeen>>

\* fetch answers NO: warn, next message
AttachFetchSkip ==
    /\ pc = "att_msg"
    /\ message_ids # <<>>
    /\ message_ids' = Tail(message_ids)
    /\ UNCHANGED <<pc, error, sess, senders, idx, count, summary, searched,
                   remote, notifyHist, telegram, fetchSetsSeen>>

AttachDecodeFail ==
    /\ pc = "att_msg"
    /\ message_ids # <<>>
    /\ ~DecodeSubject(mailbox[Head(message_ids)].Subject).ok
    /\ mailbox' = Fetch(mailbox, Head(message_ids), fetchSetsSeen)
    /\ Abort("attach", "DecodeError")
    /\ UNCHANGED <<sess, expungeCalls, flaggedDeleted, expunged,
                   notifyHist, telegram, fetchSetsSeen>>

\* one message: fetch, decode the subject, write every attachment part
AttachMsg ==
    /\ pc = "att_msg"
    /\ message_ids # <<>>
    /\ LET id == Head(message_ids)
           msg == mailbox[id]
       IN  /\ DecodeSubject(msg.Subject).ok
           /\ mailbox' = Fetch(mailbox, id, fetchSetsSeen)
           /\ \E failed \in SUBSET AttachmentPositions(msg) :
                 summary' = summary \o SavedRows(senders[idx], id, msg, failed, 1)
    /\ message_ids' = Tail(message_ids)
    /\ UNCHANGED <<pc, error, sess, senders, idx, count, searched, expungeCalls,
                   flaggedDeleted, expunged, notifyHist, telegram,
                   fetchSetsSeen>>

AttachNextSender ==
    /\ pc = "att_msg"
    /\ message_ids = <<>>
    /\ idx' = idx + 1
    /\ pc' = "att_search"
    /\ UNCHANGED <<error, sess, senders, message_ids, count, summary, searched,
                   remote, notifyHist, telegram, fetchSetsSeen>>

AttachReturn ==
    /\ pc = "att_search"
    /\ idx > Len(senders)
    /\ pc' = "att_returned"
    /\ UNCHANGED <<error, sess, locals, remote, notifyHist, telegram,
                   fetchSetsSeen>>

AttachRaise ==
    /\ pc \in {"att_search", "att_msg"}
    /\ Abort("attach", "ImapError")
    /\ UNCHANGED <<sess, remote, notifyHist, telegram, fetchSetsSeen>>

\* main: print the attachment summary, mail.logout()
Logout ==
    /\ pc = "att_returned"
    /\ session' = "closed"
    /\ logoutCalls' = logoutCalls + 1
    /\ pc' = "done"
    /\ UNCHANGED <<error, locals, remote, notifyHist, telegram, fetchSetsSeen>>

\* ------------------------------------------------------------ specifications
WalkBody == <<BodyPart>>
WalkOne == <<Container, BodyPart, NamedPart>>
WalkTwins == <<Container, NamedPart, NamedPart>>
WalkOdd == <<Container, NamelessPart, ChunkedPart>>

InitCommon ==
    /\ error = NoError
    /\ logoutCalls = 0
    /\ expungeCalls = 0
    /\ senders = <<>>
    /\ idx = 0
    /\ message_ids = <<>>
    /\ count = 0
    /\ summary = <<>>
    /\ searched = <<>>
    /\ flaggedDeleted = {}
    /\ expunged = {}
    /\ markedSeen = {}
    /\ seenAtStart = {}
    /\ reported = <<>>
    /\ calls = 1
    /\ sent = NotSent
    /\ postResult = "none"

\* one run of main()
Init ==
    /\ pc = "load_credentials"
    /\ session = "none"
    /\ mailbox \in Mailboxes({PlainSubject, BadSubject}, {WalkOne})
    /\ fetchSetsSeen = TRUE
    /\ InitCommon

Next ==
    \/ LoadCredentials
    \/ ConnectToGmailImap
    \/ DeleteOpen
    \/ DeleteSearch
    \/ DeleteStore
    \/ DeleteAppend
    \/ DeleteExpunge
    \/ DeleteRaise
    \/ PrintDeleted
    \/ NotifyOpen
    \/ NotifySearch
    \/ NotifyFetchFail
    \/ NotifyDecodeFail
    \/ NotifyMsg
    \/ NotifyNextSender
    \/ NotifyReturn
    \/ NotifyRaise
    \/ SendToTelegram
    \/ AttachOpen
    \/ AttachSearchNone
    \/ AttachSearch
    \/ AttachFetchSkip
    \/ AttachDecodeFail
    \/ AttachMsg
    \/ AttachNextSender
    \/ AttachReturn
    \/ AttachRaise
    \/ Logout

Spec == Init /\ [][Next]_vars

\* get_emails_to_notify called on an open session, and called again
InitNotify ==
    /\ pc = "ntf_open"
    /\ session = "open"
    /\ mailbox \in Mailboxes({PlainSubject, Utf8Subject, BadSubject}, {WalkBody})
    /\ fetchSetsSeen \in BOOLEAN
    /\ InitCommon

NextNotify ==
    \/ NotifyOpen
    \/ NotifySearch
    \/ NotifyFetchFail
    \/ NotifyDecodeFail
    \/ NotifyMsg
    \/ NotifyNextSender
    \/ NotifyReturn
    \/ NotifyRaise
    \/ NotifyAgain

SpecNotify == InitNotify /\ [][NextNotify]_vars

\* get_attachments called on an open session
InitAttach ==
    /\ pc = "att_open"
    /\ session = "open"
    /\ mailbox \in Mailboxes({PlainSubject, BadSubject},
                             {WalkBody, WalkOne, WalkTwins, WalkOdd})
    /\ fetchSetsSeen \in BOOLEAN
    /\ InitCommon

NextAttach ==
    \/ AttachOpen
    \/ AttachSearchNone
    \/ AttachSearch
    \/ AttachFetchSkip
    \/ AttachDecodeFail
    \/ AttachMsg
    \/ AttachNextSender
    \/ AttachReturn
    \/ AttachRaise

SpecAttach == InitAttach /\ [][NextAttach]_vars

\* -------------------------------------------------------------------- claims
RunEnded == pc \in {"done", "aborted"}
DeletePcs == {"del_open", "del_search", "del_store"}
NotifyPcs == {"ntf_open", "ntf_search", "ntf_msg", "ntf_returned"}
AttachPcs == {"att_open", "att_search", "att_msg", "att_returned"}
LaterStage ==
    \/ pc \in NotifyPcs \cup AttachPcs \cup {"done"}
    \/ pc = "aborted" /\ error.stage \in {"notify", "notifier", "attach"}
Range(f) == {f[i] : i \in DOMAIN f}
Matched(list, header) == \E j \in 1..Len(list) : Contains(list[j], header)

\* C1: on every run that opened the mailbox session, the session has been
\* closed (logout) exactly once when the run ends, normally or by an error
\* raised in the deletion, notification or attachment stage.
C1_SessionClosedOnce ==
    (RunEnded /\ session # "none") => (session = "closed" /\ logoutCalls = 1)

\* C2: a deletion stage that returns normally has produced one summary row
\* per blocklist entry, in list order, each with the non-negative number of
\* messages its search returned (a zero-match sender included), and has
\* called expunge exactly once, after the last sender was processed.
C2_DeletionSummary ==
    /\ expungeCalls <= 1
    /\ pc \in DeletePcs => expungeCalls = 0
    /\ pc = "del_returned" =>
          /\ expungeCalls = 1
          /\ Len(summary) = Len(senders)
          /\ Len(searched) = Len(senders)
          /\ \A i \in 1..Len(summary) :
                /\ summary[i].Email = senders[i]
                /\ summary[i].Count = Len(searched[i])
                /\ summary[i].Count >= 0

C2_Witness ==
    /\ pc = "del_returned"
    /\ Len(senders) = 2
    /\ Len(summary) = 2
    /\ summary[1].Count = 0
    /\ summary[2].Count > 0
    /\ expunged # {}

\* C3: when a ConfigError (credentials file or a sender-list file missing or
\* malformed) aborts the run, this run has flagged (Deleted or Seen) or
\* expunged no message of the remote mailbox.
C3_ConfigAbortLeavesMailbox ==
    (pc = "aborted" /\ error.kind = "ConfigError") =>
        (flaggedDeleted = {} /\ expunged = {} /\ markedSeen = {})

\* C4: when the notification or attachment stage runs, every message the
\* deletion stage flagged Deleted has been expunged: no message of the mailbox
\* carries the Deleted flag and no search of a later stage returns a message
\* that was flagged.
C4_ExpungedBeforeLaterStages ==
    LaterStage =>
        /\ DeletedUids(mailbox) = {}
        /\ flaggedDeleted \cap Uids(mailbox) = {}
        /\ flaggedDeleted \subseteq expunged
        /\ \A k \in 1..Len(message_ids) :
              /\ message_ids[k] \in 1..Len(mailbox)
              /\ mailbox[message_ids[k]].uid \notin flaggedDeleted

C4_Witness ==
    /\ pc = "ntf_msg"
    /\ message_ids # <<>>
    /\ flaggedDeleted # {}
    /\ expunged = flaggedDeleted

\* C5: every row of the notification summary is for a message that matches
\* the sender filter of some watchlist entry and that was not Seen when the
\* stage started.
C5_RowsMatchedAndUnseen ==
    pc \in NotifyPcs =>
        \A i \in 1..Len(summary) :
            /\ summary[i].uid \in Uids(mailbox)
            /\ Matched(senders, MsgByUid(mailbox, summary[i].uid).From)
            /\ summary[i].uid \notin seenAtStart

C5_Witness ==
    /\ pc = "ntf_returned"
    /\ summary # <<>>
    /\ \E i \in 1..Len(mailbox) :
          /\ mailbox[i].uid \in seenAtStart
          /\ Matched(senders, mailbox[i].From)

\* C6: a message the notification stage has reported is never returned by a
\* later search of the stage, in the same call (a second watchlist entry that
\* matches it) or in a later call on the resulting mailbox: it is reported at
\* most once.
C6_ReportedAtMostOnce ==
    /\ \A i, j \in 1..Len(reported) : i # j => reported[i] # reported[j]
    /\ pc = "ntf_msg" =>
          \A k \in 2..Len(message_ids) :
              mailbox[message_ids[k]].uid \notin Range(reported)

C6_Witness ==
    /\ pc = "ntf_returned"
    /\ calls = 2
    /\ Len(senders) = 2
    /\ summary = <<>>
    /\ \E u \in Range(reported) :
          /\ u \in Uids(mailbox)
          /\ \A j \in 1..Len(senders) :
                Contains(senders[j], MsgByUid(mailbox, u).From)

\* C7: a failed post (network failure or non-success status) does not end the
\* run: main goes on to the attachment stage with no error, the message was
\* handed over, and a run that reaches its end has closed the session once.
C7_FailedPostContinues ==
    /\ postResult \in {"network_failure", "http_error"} =>
          /\ pc = "att_open"
          /\ error = NoError
          /\ session = "open"
          /\ sent = Message(summary)
    /\ pc \in AttachPcs \cup {"done"} => sent # NotSent
    /\ pc = "done" => (session = "closed" /\ logoutCalls = 1)

C7_Witness ==
    /\ postResult = "http_error"
    /\ pc = "att_open"
    /\ sent.rows # <<>>

\* C8: within one run of the attachment stage the saved filenames are
\* pairwise distinct across all senders, messages and parts.
C8_FilenamesDistinct ==
    pc \in AttachPcs \cup {"done"} =>
        \A i, j \in 1..Len(summary) :
            i # j => summary[i].Filename # summary[j].Filename

\* C9: a header-decode failure on one message does not abort the
\* notification stage.
C9_DecodeFailureDoesNotAbort ==
    ~(pc = "aborted" /\ error = [stage |-> "notify", kind |-> "DecodeError"])

\* C10: at the end of every run, every message the notification stage marked
\* Seen in that run is in the text that was handed to the notifier.
C10_SeenMessagesNotified ==
    RunEnded =>
        \A u \in markedSeen :
            \E i \in 1..Len(sent.rows) : sent.rows[i].uid = u

====
